---- MODULE Spec2Model ----
(***************************************************************************)
(* A model of the logic of chart-spirit-games:                             *)
(*   - src/sports_dashboard.py: _parse_wins_losses, build_standings_df,    *)
(*     main (and the fetch results they consume);                          *)
(*   - src/app.py / src/streamlit.py: load_scores.                         *)
(*                                                                         *)
(* JSON documents and Python values are modelled as tagged records of one  *)
(* uniform shape, Python strings as sequences of one-character strings, so *)
(* that lower(), "in", split() and the int()/float() parsers are computed  *)
(* on the characters.  An exception is an outcome, named by its class.     *)
(***************************************************************************)
EXTENDS Integers, Sequences, FiniteSets, TLC

(***************************************************************************)
(* Bounds of the model.                                                    *)
(***************************************************************************)
\* longest stats list drawn as an input of _parse_wins_losses
MaxStats == 3
\* longest "teams" list drawn in a payload of build_standings_df
MaxTeams == 2
\* most rows of a table drawn as scores.csv
MaxRows == 3

(***************************************************************************)
(* Characters and strings.                                                 *)
(***************************************************************************)
UpperChars == <<"A","B","C","D","E","F","G","H","I","J","K","L","M",
                "N","O","P","Q","R","S","T","U","V","W","X","Y","Z">>
LowerChars == <<"a","b","c","d","e","f","g","h","i","j","k","l","m",
                "n","o","p","q","r","s","t","u","v","w","x","y","z">>
DigitChars == <<"0","1","2","3","4","5","6","7","8","9">>

IsDigit(c) == \E i \in 1..Len(DigitChars) : DigitChars[i] = c
DigitVal(c) == (CHOOSE i \in 1..Len(DigitChars) : DigitChars[i] = c) - 1

\* str.lower() on one character
LowerChar(c) ==
    IF \E i \in 1..Len(UpperChars) : UpperChars[i] = c
    THEN LowerChars[CHOOSE i \in 1..Len(UpperChars) : UpperChars[i] = c]
    ELSE c

\* str.lower()
StrLower(s) == [i \in 1..Len(s) |-> LowerChar(s[i])]

\* sub in s
StrContains(sub, s) ==
    \E i \in 0..(Len(s) - Len(sub)) : SubSeq(s, i + 1, i + Len(sub)) = sub

\* str.strip(): leading and trailing blanks removed
RECURSIVE StripLeft(_)
StripLeft(s) == IF s # <<>> /\ Head(s) = " " THEN StripLeft(Tail(s)) ELSE s
RECURSIVE StripRight(_)
StripRight(s) ==
    IF s # <<>> /\ s[Len(s)] = " " THEN StripRight(SubSeq(s, 1, Len(s) - 1)) ELSE s
StrStrip(s) == StripRight(StripLeft(s))

\* str.split(sep) for a one-character separator: the list of parts
RECURSIVE StrSplit(_, _)
StrSplit(s, sep) ==
    IF \E i \in 1..Len(s) : s[i] = sep
    THEN LET k == CHOOSE i \in 1..Len(s) :
                     s[i] = sep /\ \A j \in 1..(i - 1) : s[j] # sep
         IN  <<SubSeq(s, 1, k - 1)>> \o StrSplit(SubSeq(s, k + 1, Len(s)), sep)
    ELSE <<s>>

\* the value of a non-empty run of decimal digits
RECURSIVE DigitsVal(_)
DigitsVal(s) ==
    IF s = <<>> THEN 0 ELSE 10 * DigitsVal(SubSeq(s, 1, Len(s) - 1)) + DigitVal(s[Len(s)])

AllDigits(s) == s # <<>> /\ \A i \in 1..Len(s) : IsDigit(s[i])

\* an optional sign in front of s: <<sign, rest>>
SignOf(s) == IF s # <<>> /\ s[1] = "-" THEN -1 ELSE 1
Unsigned(s) == IF s # <<>> /\ (s[1] = "-" \/ s[1] = "+") THEN Tail(s) ELSE s

(***************************************************************************)
(* Python / JSON values.  t is the type tag; n the number (an int, or a    *)
(* float counted in tenths); s the characters of a str; kids the items of  *)
(* a list (pairs <<"", item>>) or of a dict (pairs <<key, value>>, in      *)
(* insertion order).                                                       *)
(***************************************************************************)
JVal(t, n, s, kids) == [t |-> t, n |-> n, s |-> s, kids |-> kids]
JNone == JVal("none", 0, <<>>, <<>>)
JInt(i) == JVal("int", i, <<>>, <<>>)
\* a finite float, in tenths: JFloat(7) is 0.7
JFloat(tenths) == JVal("float", tenths, <<>>, <<>>)
JNan == JVal("nan", 0, <<>>, <<>>)
JStr(chars) == JVal("str", 0, chars, <<>>)
JList(items) == JVal("list", 0, <<>>, [i \in 1..Len(items) |-> <<"", items[i]>>])
JDict(pairs) == JVal("dict", 0, <<>>, pairs)

IsDict(v) == v.t = "dict"
IsStr(v) == v.t = "str"
IsList(v) == v.t = "list"
Items(v) == [i \in 1..Len(v.kids) |-> v.kids[i][2]]

\* bool(v)
Truthy(v) ==
    CASE v.t = "none" -> FALSE
      [] v.t \in {"int", "float"} -> v.n # 0
      [] v.t = "str" -> v.s # <<>>
      [] v.t \in {"list", "dict"} -> v.kids # <<>>
      [] OTHER -> TRUE

\* a or b
PyOr(a, b) == IF Truthy(a) THEN a ELSE b

\* key in d
HasKey(d, key) == \E i \in 1..Len(d.kids) : d.kids[i][1] = key

\* d.get(key, default) on a dict
GetD(d, key, default) ==
    IF HasKey(d, key)
    THEN d.kids[CHOOSE i \in 1..Len(d.kids) : d.kids[i][1] = key][2]
    ELSE default

\* d.get(key)
Get(d, key) == GetD(d, key, JNone)

\* the outcome of a conversion: exc = "" and the number n, or the exception
Conv(exc, n) == [exc |-> exc, n |-> n]

\* truncation toward zero of a float held in tenths
Trunc(tenths) == IF tenths >= 0 THEN tenths \div 10 ELSE -((-tenths) \div 10)

\* the digits-and-fraction form of a float literal: sign * integer part
FloatDigits(sign, dot) ==
    IF Len(dot) = 1 /\ AllDigits(dot[1]) THEN Conv("", sign * DigitsVal(dot[1]))
    ELSE IF Len(dot) = 2 /\ (dot[1] = <<>> \/ AllDigits(dot[1]))
            /\ (dot[2] = <<>> \/ AllDigits(dot[2]))
            /\ (dot[1] # <<>> \/ dot[2] # <<>>)
    THEN Conv("", sign * DigitsVal(dot[1]))
    ELSE Conv("ValueError", 0)

\* int(float(s)) of the stripped characters s, u being s without its sign
FloatLiteral(s, u, lu) ==
    IF lu = <<"i","n","f">> \/ lu = <<"i","n","f","i","n","i","t","y">>
    THEN Conv("OverflowError", 0)
    ELSE IF lu = <<"n","a","n">> THEN Conv("ValueError", 0)
    ELSE FloatDigits(SignOf(s), StrSplit(u, "."))

FloatStripped(s) == FloatLiteral(s, Unsigned(s), StrLower(Unsigned(s)))

\* int(float(s)) for a str: blanks stripped, optional sign, then inf/nan or
\* digits with an optional fraction (exponents are not drawn as inputs)
IntFloatStr(s0) == FloatStripped(StrStrip(s0))

\* int(float(v))
PyIntFloat(v) ==
    CASE v.t = "int" -> Conv("", v.n)
      [] v.t = "float" -> Conv("", Trunc(v.n))
      [] v.t = "inf" -> Conv("OverflowError", 0)
      [] v.t = "nan" -> Conv("ValueError", 0)
      [] v.t = "str" -> IntFloatStr(v.s)
      [] OTHER -> Conv("TypeError", 0)

\* int(s) of the stripped characters s, u being s without its sign
IntLiteral(s, u) ==
    IF AllDigits(u) THEN Conv("", SignOf(s) * DigitsVal(u)) ELSE Conv("ValueError", 0)

IntStripped(s) == IntLiteral(s, Unsigned(s))

\* int(s) for a str: blanks stripped, optional sign, decimal digits
IntStr(s0) == IntStripped(StrStrip(s0))

\* int(v)
PyInt(v) ==
    CASE v.t = "int" -> Conv("", v.n)
      [] v.t = "float" -> Conv("", Trunc(v.n))
      [] v.t = "inf" -> Conv("OverflowError", 0)
      [] v.t = "nan" -> Conv("ValueError", 0)
      [] v.t = "str" -> IntStr(v.s)
      [] OTHER -> Conv("TypeError", 0)

\* the decimal digits of a natural number
RECURSIVE NatChars(_)
NatChars(n) ==
    IF n < 10 THEN <<DigitChars[n + 1]>> ELSE NatChars(n \div 10) \o <<DigitChars[(n % 10) + 1]>>

\* str(v) for the values drawn as labels and team fields: str, int, None
PyStr(v) ==
    CASE v.t = "str" -> v.s
      [] v.t = "int" -> IF v.n < 0 THEN <<"-">> \o NatChars(-v.n) ELSE NatChars(v.n)
      [] v.t = "none" -> <<"N","o","n","e">>
      [] OTHER -> <<"<", v.t, ">">>

(***************************************************************************)
(* _parse_wins_losses (src/sports_dashboard.py:252-274).                   *)
(***************************************************************************)
Str_win == <<"w","i","n">>
Str_loss == <<"l","o","s","s">>

\* line 264: n in ("w", "win", "wins") or (n and "win" in n and "loss" not in n)
IsWinLabel(n) ==
    \/ n \in {<<"w">>, Str_win, <<"w","i","n","s">>}
    \/ (n # <<>> /\ StrContains(Str_win, n) /\ ~StrContains(Str_loss, n))

\* line 266: n in ("l", "loss", "losses") or (n and "loss" in n)
IsLossLabel(n) ==
    \/ n \in {<<"l">>, Str_loss, <<"l","o","s","s","e","s">>}
    \/ (n # <<>> /\ StrContains(Str_loss, n))

\* line 258: (str(s.get("name") or s.get("abbreviation") or s.get("type") or "")).lower()
StatLabel(s) ==
    StrLower(PyStr(PyOr(PyOr(PyOr(Get(s, "name"), Get(s, "abbreviation")),
                             Get(s, "type")), JStr(<<>>))))

\* lines 259, 270, 271: s.get("value", 0) or 0
StatValue(s) == PyOr(GetD(s, "value", JInt(0)), JInt(0))

\* the locals of _parse_wins_losses, and the exception that left it ("" if none)
PwlAcc(wins, losses, exc) == [wins |-> wins, losses |-> losses, exc |-> exc]

\* lines 260-263: the converted value, 0 when the conversion is caught
CaughtZero(c) == IF c.exc \in {"ValueError", "TypeError"} THEN 0 ELSE c.n

\* a variant of lines 264-267 in which the first matching entry of a kind is
\* kept and later ones are ignored
ScanAssignFirstWins(acc, n, c) ==
    IF c.exc = "OverflowError" THEN [acc EXCEPT !.exc = "OverflowError"]
    ELSE IF IsWinLabel(n)
         THEN (IF acc.wins = 0 THEN [acc EXCEPT !.wins = CaughtZero(c)] ELSE acc)
    ELSE IF IsLossLabel(n)
         THEN (IF acc.losses = 0 THEN [acc EXCEPT !.losses = CaughtZero(c)] ELSE acc)
    ELSE acc

\* lines 260-267: the conversion c of the value, then the assignment by label n
ScanAssign(acc, n, c) ==
    IF c.exc = "OverflowError" THEN [acc EXCEPT !.exc = "OverflowError"]
    ELSE IF IsWinLabel(n) THEN [acc EXCEPT !.wins = CaughtZero(c)]
    ELSE IF IsLossLabel(n) THEN [acc EXCEPT !.losses = CaughtZero(c)]
    ELSE acc

\* lines 256-267: one iteration of the loop body on entry s
ScanStep(acc, s) ==
    IF ~IsDict(s) THEN acc ELSE ScanAssign(acc, StatLabel(s), PyIntFloat(StatValue(s)))

\* an iteration is reached only if no earlier one raised
ScanNext(acc, s) == IF acc.exc # "" THEN acc ELSE ScanStep(acc, s)

\* lines 255-267: the loop over the first k entries of a list
RECURSIVE ScanPrefix(_, _)
ScanPrefix(stats, k) ==
    IF k = 0 THEN PwlAcc(0, 0, "") ELSE ScanNext(ScanPrefix(stats, k - 1), stats[k])

\* line 271: losses = int(float(...)), c1 being the conversion
FallbackLosses(acc, c1) ==
    IF c1.exc = "OverflowError" THEN [acc EXCEPT !.exc = "OverflowError"]
    ELSE IF c1.exc # "" THEN acc
    ELSE [acc EXCEPT !.losses = c1.n]

\* lines 270-271: wins = int(float(...)), c0 being the conversion, then losses
FallbackWins(acc, stats, c0) ==
    IF c0.exc = "OverflowError" THEN [acc EXCEPT !.exc = "OverflowError"]
    ELSE IF c0.exc # "" THEN acc
    ELSE IF ~IsDict(stats[2]) THEN [acc EXCEPT !.wins = c0.n, !.exc = "AttributeError"]
    ELSE FallbackLosses([acc EXCEPT !.wins = c0.n], PyIntFloat(StatValue(stats[2])))

\* lines 268-273: the positional fallback, on the locals the loop left
Fallback(acc, stats) ==
    IF ~(acc.wins = 0 /\ acc.losses = 0 /\ Len(stats) >= 2) THEN acc
    ELSE IF ~IsDict(stats[1]) THEN [acc EXCEPT !.exc = "AttributeError"]
    ELSE FallbackWins(acc, stats, PyIntFloat(StatValue(stats[1])))

\* the fallback is reached only if the loop did not raise
AfterScan(acc, stats) == IF acc.exc # "" THEN acc ELSE Fallback(acc, stats)

\* _parse_wins_losses(stats) for a list
ParseList(stats) == AfterScan(ScanPrefix(stats, Len(stats)), stats)

\* _parse_wins_losses(stats) for whatever group.get("stats", []) holds
ParseWinsLosses(stats) ==
    CASE stats.t = "list" -> ParseList(Items(stats))
      [] stats.t = "dict" ->
            \* the keys are iterated (strings: skipped); stats[0] is a KeyError
            IF Len(stats.kids) >= 2 THEN PwlAcc(0, 0, "KeyError") ELSE PwlAcc(0, 0, "")
      [] stats.t = "str" ->
            \* the characters are iterated (skipped); stats[0].get is an AttributeError
            IF Len(stats.s) >= 2 THEN PwlAcc(0, 0, "AttributeError") ELSE PwlAcc(0, 0, "")
      [] OTHER -> PwlAcc(0, 0, "TypeError")

(***************************************************************************)
(* build_standings_df (src/sports_dashboard.py:277-352).                   *)
(***************************************************************************)
EmptyStr == JStr(<<>>)
EmptyDict == JDict(<<>>)
EmptyList == JList(<<>>)

\* the rows an operation collected, or the exception that left it
RowsRes(exc, rows) == [exc |-> exc, rows |-> rows]

\* lines 293-299, 318-324, 342-348: one record of the table
Row(conf, team, abbr, wins, losses) ==
    [Conference |-> conf, Team |-> team, Abbr |-> abbr, Wins |-> wins, Losses |-> losses]

\* for x in v: the items visited, or the TypeError of a non-iterable
Iter(v) ==
    CASE v.t = "list" -> [exc |-> "", items |-> Items(v)]
      [] v.t = "dict" -> [exc |-> "", items |-> [i \in 1..Len(v.kids) |-> JStr(<<v.kids[i][1]>>)]]
      [] v.t = "str" -> [exc |-> "", items |-> [i \in 1..Len(v.s) |-> JStr(<<v.s[i]>>)]]
      [] OTHER -> [exc |-> "TypeError", items |-> <<>>]

\* the rows of one more iteration r appended, unless an earlier one raised
AppendRes(prev, r) ==
    IF prev.exc # "" THEN prev
    ELSE IF r.exc # "" THEN RowsRes(r.exc, <<>>)
    ELSE RowsRes("", prev.rows \o r.rows)

\* lines 292-299, 317-324, 341-348: if team_name: rows.append(...)
RowIfNamed(conf_name, team_name, abbr, wl) ==
    IF Truthy(team_name)
    THEN RowsRes("", <<Row(conf_name, team_name, abbr, wl.wins, wl.losses)>>)
    ELSE RowsRes("", <<>>)

\* line 291: team.get("displayName") or team.get("shortDisplayName", "")
S1TeamName(team) == PyOr(Get(team, "displayName"), GetD(team, "shortDisplayName", EmptyStr))

\* lines 290-299, wl being the outcome of _parse_wins_losses(stats)
S1EntryRow(conf_name, team, wl) ==
    IF wl.exc # "" THEN RowsRes(wl.exc, <<>>)
    ELSE IF ~IsDict(team) THEN RowsRes("AttributeError", <<>>)
    ELSE RowIfNamed(conf_name, S1TeamName(team), GetD(team, "abbreviation", EmptyStr), wl)

\* lines 288-299: the body of the inner loop of structure 1
S1Entry(conf_name, group) ==
    IF ~IsDict(group) THEN RowsRes("AttributeError", <<>>)
    ELSE S1EntryRow(conf_name, GetD(group, "team", EmptyDict),
                    ParseWinsLosses(GetD(group, "stats", EmptyList)))

\* lines 287-299: the inner loop over the first k entries
RECURSIVE S1Entries(_, _, _)
S1Entries(conf_name, entries, k) ==
    IF k = 0 THEN RowsRes("", <<>>)
    ELSE AppendRes(S1Entries(conf_name, entries, k - 1), S1Entry(conf_name, entries[k]))

\* line 287: for group in entries, it being the iteration of entries
S1EntriesOf(conf_name, it) ==
    IF it.exc # "" THEN RowsRes(it.exc, <<>>) ELSE S1Entries(conf_name, it.items, Len(it.items))

\* line 286: conf.get("standings", {}).get("entries", []), st being the former
S1ConfEntries(conf_name, st) ==
    IF ~IsDict(st) THEN RowsRes("AttributeError", <<>>)
    ELSE S1EntriesOf(conf_name, Iter(GetD(st, "entries", EmptyList)))

\* lines 285-299: the body of the outer loop of structure 1
S1Conf(conf) ==
    IF ~IsDict(conf) THEN RowsRes("AttributeError", <<>>)
    ELSE S1ConfEntries(GetD(conf, "name", EmptyStr), GetD(conf, "standings", EmptyDict))

\* lines 284-299: the outer loop over the first k children
RECURSIVE S1Confs(_, _)
S1Confs(children, k) ==
    IF k = 0 THEN RowsRes("", <<>>)
    ELSE AppendRes(S1Confs(children, k - 1), S1Conf(children[k]))

\* line 284: for conf in children, it being the iteration of children
S1ConfsOf(it) ==
    IF it.exc # "" THEN RowsRes(it.exc, <<>>) ELSE S1Confs(it.items, Len(it.items))

\* lines 283-299: structure 1, children[].standings.entries[]
Structure1(data) ==
    IF ~IsDict(data) THEN RowsRes("AttributeError", <<>>)
    ELSE S1ConfsOf(Iter(GetD(data, "children", EmptyList)))

\* line 316: team.get("displayName") or team.get("shortDisplayName") or team.get("name", "")
S2TeamName(team) ==
    PyOr(PyOr(Get(team, "displayName"), Get(team, "shortDisplayName")),
         GetD(team, "name", EmptyStr))

\* lines 315-324, wl being the outcome of _parse_wins_losses(stats)
S2EntryRow(conf_name, team, wl) ==
    IF wl.exc # "" THEN RowsRes(wl.exc, <<>>)
    ELSE IF ~IsDict(team) THEN RowsRes("AttributeError", <<>>)
    ELSE RowIfNamed(conf_name, S2TeamName(team), GetD(team, "abbreviation", EmptyStr), wl)

\* lines 312-324: a team that is a bare str is skipped
S2EntryTeam(conf_name, group, team) ==
    IF IsStr(team) THEN RowsRes("", <<>>)
    ELSE S2EntryRow(conf_name, team, ParseWinsLosses(GetD(group, "stats", EmptyList)))

\* lines 311-324: the body of the inner loop of structure 2
S2Entry(conf_name, group) ==
    IF ~IsDict(group) THEN RowsRes("AttributeError", <<>>)
    ELSE S2EntryTeam(conf_name, group, GetD(group, "team", group))

\* lines 310-324: the inner loop over the first k entries
RECURSIVE S2Entries(_, _, _)
S2Entries(conf_name, entries, k) ==
    IF k = 0 THEN RowsRes("", <<>>)
    ELSE AppendRes(S2Entries(conf_name, entries, k - 1), S2Entry(conf_name, entries[k]))

\* line 310: for group in entries, it being the iteration of entries
S2EntriesOf(conf_name, it) ==
    IF it.exc # "" THEN RowsRes(it.exc, <<>>) ELSE S2Entries(conf_name, it.items, Len(it.items))

\* line 309: grp.get("standings", {}).get("entries", grp.get("entries", []))
S2GroupEntries(conf_name, grp, st) ==
    IF ~IsDict(st) THEN RowsRes("AttributeError", <<>>)
    ELSE S2EntriesOf(conf_name, Iter(GetD(st, "entries", GetD(grp, "entries", EmptyList))))

\* lines 308-324: the body of the outer loop of structure 2
S2Group(grp) ==
    IF ~IsDict(grp) THEN RowsRes("AttributeError", <<>>)
    ELSE S2GroupEntries(GetD(grp, "name", GetD(grp, "label", EmptyStr)), grp,
                        GetD(grp, "standings", EmptyDict))

\* lines 307-324: the outer loop over the first k groups
RECURSIVE S2Groups(_, _)
S2Groups(groups, k) ==
    IF k = 0 THEN RowsRes("", <<>>)
    ELSE AppendRes(S2Groups(groups, k - 1), S2Group(groups[k]))

\* line 307: for grp in groups, it being the iteration of groups
S2GroupsOf(it) ==
    IF it.exc # "" THEN RowsRes(it.exc, <<>>) ELSE S2Groups(it.items, Len(it.items))

\* lines 305-306: a list under content["standings"] stands in for no groups
S2PickGroups(content, groups) ==
    IF ~Truthy(groups) /\ IsList(Get(content, "standings"))
    THEN Get(content, "standings")
    ELSE groups

\* line 304: content.get("standings", {}).get("groups", content.get("groups", []))
S2ContentGroups(content, st) ==
    IF ~IsDict(st) THEN RowsRes("AttributeError", <<>>)
    ELSE S2GroupsOf(Iter(S2PickGroups(content,
                                      GetD(st, "groups", GetD(content, "groups", EmptyList)))))

\* lines 304-324, content being standings_data.get("content", standings_data)
S2Content(content) ==
    IF ~IsDict(content) THEN RowsRes("AttributeError", <<>>)
    ELSE S2ContentGroups(content, GetD(content, "standings", EmptyDict))

\* lines 303-324: structure 2, content.standings.groups or groups
Structure2(data) == S2Content(GetD(data, "content", data))

\* lines 333-336: the two halves a and b converted, (0, 0) if either fails
S3Halves(a, b) ==
    IF a.exc # "" \/ b.exc # "" THEN PwlAcc(0, 0, "") ELSE PwlAcc(a.n, b.n, "")

\* lines 332-336: parts = record.split("-"), then int() of parts[0] and parts[1]
S3Split(parts) ==
    S3Halves(IntStr(StrStrip(parts[1])),
             IF Len(parts) >= 2 THEN IntStr(StrStrip(parts[2])) ELSE Conv("IndexError", 0))

\* lines 338-339: int() of the explicit fields, w and l being the conversions
S3Explicit(w, l) ==
    IF w.exc # "" THEN PwlAcc(0, 0, w.exc)
    ELSE IF l.exc # "" THEN PwlAcc(w.n, 0, l.exc)
    ELSE PwlAcc(w.n, l.n, "")

\* lines 338-339: int(group.get("wins", 0) or 0), int(group.get("losses", 0) or 0)
S3Fields(group) ==
    S3Explicit(PyInt(PyOr(GetD(group, "wins", JInt(0)), JInt(0))),
               PyInt(PyOr(GetD(group, "losses", JInt(0)), JInt(0))))

\* a variant of lines 331-339 that takes the "W-L" path for every str record
S3WinsLossesAnyStr(group, record) ==
    IF IsStr(record) THEN S3Split(StrSplit(record.s, "-")) ELSE S3Fields(group)

\* lines 331-339: wins and losses of a flat team entry
S3WinsLosses(group, record) ==
    IF IsStr(record) /\ StrContains(<<"-">>, record.s)
    THEN S3Split(StrSplit(record.s, "-"))
    ELSE S3Fields(group)

\* line 330: group.get("record", {}) or group.get("summary", "")
S3Record(group) == PyOr(GetD(group, "record", EmptyDict), GetD(group, "summary", EmptyStr))

\* line 340: team.get("displayName") if isinstance(team, dict) else str(team)
S3TeamName(team) == IF IsDict(team) THEN Get(team, "displayName") ELSE JStr(PyStr(team))

\* line 345: team.get("abbreviation", "") if isinstance(team, dict) else ""
S3Abbr(team) == IF IsDict(team) THEN GetD(team, "abbreviation", EmptyStr) ELSE EmptyStr

\* lines 340-348, wl being the wins and losses of lines 331-339
S3EntryRow(team, wl) ==
    IF wl.exc # "" THEN RowsRes(wl.exc, <<>>)
    ELSE RowIfNamed(EmptyStr, S3TeamName(team), S3Abbr(team), wl)

\* lines 329-348: the body of the loop of structure 3
S3Entry(group) ==
    IF ~IsDict(group) THEN RowsRes("AttributeError", <<>>)
    ELSE S3EntryRow(GetD(group, "team", group), S3WinsLosses(group, S3Record(group)))

\* lines 328-348: the loop over the first k teams
RECURSIVE S3Entries(_, _)
S3Entries(teams, k) ==
    IF k = 0 THEN RowsRes("", <<>>)
    ELSE AppendRes(S3Entries(teams, k - 1), S3Entry(teams[k]))

\* line 328: for group in standings_data.get("teams", []), it being the iteration
S3EntriesOf(it) ==
    IF it.exc # "" THEN RowsRes(it.exc, <<>>) ELSE S3Entries(it.items, Len(it.items))

\* lines 328-348: structure 3, a flat list of teams
Structure3(data) == S3EntriesOf(Iter(GetD(data, "teams", EmptyList)))

\* line 302: if not rows
Structure2Guard(rows) == rows = <<>>

\* a variant of line 327 without "not rows"
Structure3GuardNoRowsTest(rows, data) == HasKey(data, "teams")

\* line 327: if not rows and "teams" in standings_data
Structure3Guard(rows, data) == rows = <<>> /\ HasKey(data, "teams")

(***************************************************************************)
(* Inputs of _parse_wins_losses: the stat entries drawn.                   *)
(***************************************************************************)
Stat(pairs) == JDict(pairs)
E_wins7 == Stat(<< <<"name", JStr(<<"w","i","n","s">>)>>, <<"value", JStr(<<"7">>)>> >>)
E_losses3 == Stat(<< <<"name", JStr(<<"l","o","s","s","e","s">>)>>, <<"value", JStr(<<"3">>)>> >>)
E_winPct == Stat(<< <<"name", JStr(<<"w","i","n","P","e","r","c","e","n","t">>)>>,
                    <<"value", JFloat(7)>> >>)
E_L2 == Stat(<< <<"name", JNone>>, <<"abbreviation", JStr(<<"L">>)>>, <<"value", JFloat(29)>> >>)
E_v10 == Stat(<< <<"value", JInt(10)>> >>)
E_v5 == Stat(<< <<"type", JStr(<<"p","t","s">>)>>, <<"value", JStr(<<" ","5",".","5">>)>> >>)
E_abc == Stat(<< <<"value", JStr(<<"a","b","c">>)>> >>)
E_neg == Stat(<< <<"type", JStr(<<"w">>)>>, <<"value", JInt(-2)>> >>)
E_inf == Stat(<< <<"name", JStr(<<"g","b">>)>>, <<"value", JStr(<<"i","n","f">>)>> >>)
E_bare == JStr(<<"w","i","n","s">>)

StatEntries == {E_wins7, E_losses3, E_winPct, E_L2, E_v10, E_v5, E_abc, E_neg, E_inf, E_bare}

\* every list of at most n entries
RECURSIVE SeqsUpTo(_, _)
SeqsUpTo(S, n) ==
    IF n = 0 THEN {<<>>}
    ELSE LET shorter == SeqsUpTo(S, n - 1)
         IN  shorter \cup {Append(q, e) : q \in {r \in shorter : Len(r) = n - 1}, e \in S}

StatsLists == SeqsUpTo(StatEntries, MaxStats)

(***************************************************************************)
(* Inputs of build_standings_df: the payloads drawn.                       *)
(***************************************************************************)
N_Bears == JStr(<<"B","e","a","r","s">>)
N_Jets == JStr(<<"J","e","t","s">>)
N_Rams == JStr(<<"R","a","m","s">>)
N_CHI == JStr(<<"C","H","I">>)
N_AFC == JStr(<<"A","F","C">>)
N_NFC == JStr(<<"N","F","C">>)
N_id9 == JStr(<<"9">>)

T_Bears == JDict(<< <<"displayName", N_Bears>>, <<"abbreviation", N_CHI>> >>)
T_Jets == JDict(<< <<"shortDisplayName", N_Jets>> >>)
T_Rams == JDict(<< <<"displayName", N_Rams>> >>)

\* entries of the grouped shapes
G_Bears == JDict(<< <<"team", T_Bears>>, <<"stats", JList(<<E_wins7, E_losses3>>)>> >>)
G_Jets == JDict(<< <<"team", T_Jets>>, <<"stats", JList(<<E_v10, E_v5>>)>> >>)
G_noname == JDict(<< <<"team", EmptyDict>>, <<"stats", JList(<<E_neg>>)>> >>)
G_teamid == JDict(<< <<"team", N_id9>>, <<"stats", EmptyList>> >>)
G_self == JDict(<< <<"name", N_Rams>>, <<"stats", JList(<<E_L2, E_winPct>>)>> >>)

Conf(name, entries) ==
    JDict(<< <<"name", name>>, <<"standings", JDict(<< <<"entries", JList(entries)>> >>)>> >>)
Grp(label, entries) == JDict(<< <<"label", label>>, <<"entries", JList(entries)>> >>)

\* the "children" member: absent, or one of these
ChildrenOptions ==
    { <<>>,
      << <<"children", EmptyList>> >>,
      << <<"children", JList(<<Conf(N_AFC, <<G_Bears, G_Jets>>)>>)>> >>,
      << <<"children", JList(<<Conf(N_AFC, <<G_noname>>)>>)>> >>,
      << <<"children", JList(<<Conf(N_AFC, <<G_teamid>>)>>)>> >> }

\* the "content" / "groups" members: absent, or one of these
ContentOptions ==
    { <<>>,
      << <<"content", JDict(<< <<"standings",
            JDict(<< <<"groups", JList(<<Conf(N_NFC, <<G_teamid, G_Jets>>)>>)>> >>)>> >>)>> >>,
      << <<"groups", JList(<<Grp(N_NFC, <<G_self>>)>>)>> >>,
      << <<"content", JDict(<< <<"standings", JList(<<Grp(N_NFC, <<G_Bears>>)>>)>> >>)>> >>,
      << <<"content", JDict(<< <<"groups", JList(<<Grp(N_NFC, <<G_noname>>)>>)>> >>)>> >> }

\* entries of the flat shape
F_124 == JDict(<< <<"team", T_Bears>>, <<"record", JStr(<<"1","2","-","4">>)>>,
                  <<"wins", JInt(1)>> >>)
F_abc == JDict(<< <<"team", T_Jets>>, <<"displayName", N_Jets>>,
                  <<"record", JStr(<<"a","b","c">>)>> >>)
F_abc5 == JDict(<< <<"team", T_Rams>>, <<"record", JStr(<<"a","b","c">>)>>,
                   <<"wins", JInt(5)>>, <<"losses", JStr(<<"2">>)>> >>)
F_sum == JDict(<< <<"team", N_Jets>>, <<"summary", JStr(<<" ","3"," ","-","1","-","2">>)>> >>)
F_neg == JDict(<< <<"displayName", N_Rams>>, <<"record", JStr(<<"-","1","-","4">>)>> >>)
F_wl == JDict(<< <<"team", T_Rams>>, <<"record", JDict(<< <<"items", EmptyList>> >>)>>,
                 <<"wins", JFloat(95)>>, <<"losses", JInt(-7)>> >>)
F_bad == JDict(<< <<"team", T_Bears>>, <<"wins", JStr(<<"x","y","z">>)>> >>)
F_noname == JDict(<< <<"team", T_Jets>>, <<"record", JStr(<<"a","-","b">>)>> >>)

FlatEntries == {F_124, F_abc, F_abc5, F_sum, F_neg, F_wl, F_bad, F_noname}

\* the "teams" member: absent, a str, or a list of at most MaxTeams entries
TeamsOptions ==
    { <<>>, << <<"teams", N_Jets>> >> }
        \cup { << <<"teams", JList(q)>> >> : q \in SeqsUpTo(FlatEntries, MaxTeams) }

\* the payloads: absent, empty, not a mapping, or a mapping of the members above
Payloads ==
    { JNone, EmptyDict, JList(<<N_Bears, N_Jets>>) }
        \cup { JDict(c \o g \o f) : c \in ChildrenOptions, g \in ContentOptions, f \in TeamsOptions }

(***************************************************************************)
(* load_scores (src/app.py:77-96; the same statements as the module body   *)
(* of src/streamlit.py:5-21).  A DataFrame is its column names, its index  *)
(* labels and its rows of cells; a missing cell is NaN (an empty field of  *)
(* the file) or None (put by replace).                                     *)
(***************************************************************************)
Df(columns, index, data) == [columns |-> columns, index |-> index, data |-> data]
NRows(df) == Len(df.index)

Col_Name == "Team Member"
Col_Score == "Free Throw"
Col_TotalRaw == "Unnamed: 11"
Col_Total == "Total Total"
Col_Emoji == "Emoji"

\* app.py:80: "x"; app.py:93: the two emoji
Sentinel == JStr(<<"x">>)
Trophy == JStr(<<"trophy">>)
Cookie == JStr(<<"cookie">>)

ColIndex(df, name) == CHOOSE c \in 1..Len(df.columns) : df.columns[c] = name

\* df[name] at row position r
Cell(df, r, name) == df.data[r][ColIndex(df, name)]

\* pandas.isna
IsNA(v) == v.t \in {"none", "nan"}

\* app.py:79: a field read_csv takes for a missing value: the empty field
IsNaField(s) == s = <<>>

\* app.py:79: read_csv infers a column's type from all its fields: a column
\* whose fields are all numbers or missing holds numbers, any other column
\* holds its fields as strings; a missing field is NaN in both
ColumnIsNumeric(data, c) ==
    \A r \in 1..Len(data) : IsNaField(data[r][c]) \/ AllDigits(data[r][c])
ParseField(numeric, s) ==
    IF IsNaField(s) THEN JNan ELSE IF numeric THEN JInt(DigitsVal(s)) ELSE JStr(s)

\* app.py:79: pd.read_csv on the text table csv
ReadCsv(csv) ==
    [csv EXCEPT !.data = [r \in 1..NRows(csv) |->
                             [c \in 1..Len(csv.columns) |->
                                 ParseField(ColumnIsNumeric(csv.data, c), csv.data[r][c])]]]

\* app.py:80: df.replace(old, new), on every column
Replace(df, old, new) ==
    [df EXCEPT !.data = [r \in 1..NRows(df) |->
                            [c \in 1..Len(df.columns) |->
                                IF df.data[r][c] = old THEN new ELSE df.data[r][c]]]]

\* app.py:81-88: df.rename(columns={old: new})
Rename(df, old, new) ==
    [df EXCEPT !.columns = [c \in 1..Len(df.columns) |->
                               IF df.columns[c] = old THEN new ELSE df.columns[c]]]

\* the rows at the positions `keep` (a sequence of row positions), in that order
TakeRows(df, keep) ==
    [df EXCEPT !.index = [i \in 1..Len(keep) |-> df.index[keep[i]]],
               !.data = [i \in 1..Len(keep) |-> df.data[keep[i]]]]

\* the row positions of df, in order
RowPositions(df) == [i \in 1..NRows(df) |-> i]

\* a variant of dropna without subset=: a row with any missing cell is dropped
DropnaAnyColumn(df, name) ==
    LET Full(r) == \A c \in 1..Len(df.columns) : ~IsNA(df.data[r][c])
    IN  TakeRows(df, SelectSeq(RowPositions(df), Full))

\* app.py:89: df.dropna(subset=[name])
Dropna(df, name) ==
    LET Present(r) == ~IsNA(Cell(df, r, name))
    IN  TakeRows(df, SelectSeq(RowPositions(df), Present))

\* the permutations of 1..n, as sequences
Perms(n) == {f \in [1..n -> 1..n] : \A i, j \in 1..n : f[i] = f[j] => i = j}

\* app.py:89-91: the orders df.sort_values(by=name, ascending=False) can give.
\* kind is left at its default, "quicksort", which is not a stable sort: the
\* rows with a value come first in descending order, rows of equal value in
\* an order the sort does not fix; the rows with a missing value come last
\* (na_position="last"), in their prior order.
SortOrders(df, name) ==
    {f \in Perms(NRows(df)) :
        \A i, j \in 1..NRows(df) : i < j =>
            LET a == Cell(df, f[i], name)
                b == Cell(df, f[j], name)
            IN  /\ IsNA(a) => IsNA(b)
                /\ (~IsNA(a) /\ ~IsNA(b)) => a.n >= b.n
                /\ (IsNA(a) /\ IsNA(b)) => f[i] < f[j]}

\* app.py:93: df["Total Total"].max(), NaN when no row has a value
ColMax(df, name) ==
    LET vals == {Cell(df, r, name).n : r \in {q \in 1..NRows(df) : ~IsNA(Cell(df, q, name))}}
    IN  IF vals = {} THEN JNan ELSE JInt(CHOOSE m \in vals : \A v \in vals : v <= m)

\* a == b on cells that are numbers or missing: a missing value equals nothing
CellEq(a, b) == ~IsNA(a) /\ ~IsNA(b) /\ a.n = b.n

\* a variant of the Emoji column that marks the first row only
EmojiFirstRowOnly(df, r) == IF r = 1 THEN Trophy ELSE Cookie

\* app.py:93: the lambda applied to the row at position r
EmojiOf(df, r) ==
    IF CellEq(Cell(df, r, Col_Total), ColMax(df, Col_Total)) THEN Trophy ELSE Cookie

\* app.py:92-95: df["Emoji"] = df.apply(..., axis=1)
WithEmoji(df) ==
    [df EXCEPT !.columns = df.columns \o <<Col_Emoji>>,
               !.data = [r \in 1..NRows(df) |-> df.data[r] \o <<EmojiOf(df, r)>>]]

(***************************************************************************)
(* Inputs of load_scores: the text tables of scores.csv, each field the    *)
(* characters between two delimiters.  A player name is a name, the        *)
(* sentinel or an empty field; a score is a number or the sentinel; the    *)
(* aggregate is a number or an empty field.                                *)
(***************************************************************************)
NameFields(i) == {<<"p", DigitChars[i + 1]>>, <<"x">>, <<>>}
\* the score and the aggregate of a row
ScoreTotalFields ==
    {<< <<"3">>, <<"5","0">> >>, << <<"3">>, <<"8","0">> >>, << <<"x">>, <<"8","0">> >>,
     << <<"3">>, <<>> >>}

\* the fields of the first n rows of a table
RECURSIVE CsvRows(_)
CsvRows(n) ==
    IF n = 0 THEN {<<>>}
    ELSE {Append(d, <<nm>> \o st) :
             d \in CsvRows(n - 1), nm \in NameFields(n), st \in ScoreTotalFields}

CsvTables ==
    UNION {{Df(<<Col_Name, Col_Score, Col_TotalRaw>>, [i \in 1..n |-> i - 1], data) :
               data \in CsvRows(n)} : n \in 1..MaxRows}

(***************************************************************************)
(* fetch_json, get_scoreboard, get_standings and main                      *)
(* (src/sports_dashboard.py:162-188, 355-495).                             *)
(***************************************************************************)
\* lines 18-24
LEAGUES ==
    << [sport |-> "football", league |-> "nfl", name |-> "NFL"],
       [sport |-> "basketball", league |-> "nba", name |-> "NBA"],
       [sport |-> "baseball", league |-> "mlb", name |-> "MLB"],
       [sport |-> "hockey", league |-> "nhl", name |-> "NHL"],
       [sport |-> "soccer", league |-> "usa.1", name |-> "MLS"] >>

\* line 163: the default timeout of fetch_json, in seconds
DefaultTimeout == 10
\* lines 179, 185: the timeout of the standings requests, in seconds
StandingsTimeout == 15

\* the classes an exception of urlopen / read / decode / json.loads is an
\* instance of
ExcClasses(kind) ==
    CASE kind = "URLError" -> {"URLError", "OSError"}
      [] kind = "HTTPError" -> {"HTTPError", "URLError", "OSError"}
      [] kind = "timeout" -> {"timeout", "OSError"}
      [] kind = "JSONDecodeError" -> {"JSONDecodeError", "ValueError"}
      [] kind = "UnicodeDecodeError" -> {"UnicodeDecodeError", "ValueError"}
      [] kind = "IncompleteRead" -> {"IncompleteRead", "HTTPException"}
      [] OTHER -> {kind}

\* line 168: except (URLError, json.JSONDecodeError, OSError)
FetchCaught == {"URLError", "JSONDecodeError", "OSError"}

\* what a request meets: a document, or the failure of that kind
Response(kind, doc) == [kind |-> kind, doc |-> doc]
FailureKinds ==
    {"URLError", "HTTPError", "timeout", "JSONDecodeError", "UnicodeDecodeError",
     "IncompleteRead"}
Responses(docs) ==
    {Response("ok", d) : d \in docs} \cup {Response(k, JNone) : k \in FailureKinds}

\* lines 163-169: fetch_json on a request that meets response resp; exc is the
\* exception that escapes ("" if none), value the result
FetchJson(resp) ==
    IF resp.kind = "ok" THEN [exc |-> "", value |-> resp.doc]
    ELSE IF ExcClasses(resp.kind) \cap FetchCaught # {} THEN [exc |-> "", value |-> JNone]
    ELSE [exc |-> resp.kind, value |-> JNone]

\* the requests: lines 173, 178, 184 (season 0 is the current year, 1 the prior)
Request(endpoint, league, season, timeout) ==
    [endpoint |-> endpoint, league |-> league, season |-> season, timeout |-> timeout]

\* line 183: for season in (year, year - 1), as years before the current one
Seasons == <<0, 1>>

\* line 181: (sport == "football" and league == "nfl")
IsNfl(l) == l.sport = "football" /\ l.league = "nfl"

\* a variant of the test of line 181 that sends every response to the
\* alternate endpoint
NeedsAltAlways(data) == [exc |-> "", yes |-> TRUE]

\* line 181: not data or not data.get("children"); exc for a data without get
NeedsAlt(data) ==
    IF ~Truthy(data) THEN [exc |-> "", yes |-> TRUE]
    ELSE IF ~IsDict(data) THEN [exc |-> "AttributeError", yes |-> FALSE]
    ELSE [exc |-> "", yes |-> ~Truthy(Get(data, "children"))]

\* line 186: data and (data.get("children") or data.get("content") or data.get("teams"))
AltUsable(data) ==
    IF ~Truthy(data) THEN [exc |-> "", yes |-> FALSE]
    ELSE IF ~IsDict(data) THEN [exc |-> "AttributeError", yes |-> FALSE]
    ELSE [exc |-> "", yes |-> Truthy(PyOr(PyOr(Get(data, "children"), Get(data, "content")),
                                          Get(data, "teams")))]

\* the scoreboard documents drawn: with and without events
Doc_Games == JDict(<< <<"events", JList(<<JDict(<< <<"competitions", EmptyList>> >>)>>)>> >>)
Doc_NoGames == JDict(<< <<"events", EmptyList>> >>)
ScoreboardDocs == {Doc_Games, Doc_NoGames}

\* the standings documents drawn
Doc_Children == JDict(<< <<"children", JList(<<Conf(N_AFC, <<G_Bears, G_Jets>>)>>)>> >>)
Doc_Content ==
    JDict(<< <<"content", JDict(<< <<"standings",
        JDict(<< <<"groups", JList(<<Conf(N_NFC, <<G_teamid, G_Jets>>)>>)>> >>)>> >>)>> >>)
Doc_Teams == JDict(<< <<"teams", JList(<<F_124, F_abc5>>)>> >>)
Doc_TeamId == JDict(<< <<"children", JList(<<Conf(N_AFC, <<G_teamid>>)>>)>> >>)
Doc_NoRows == JDict(<< <<"children", JList(<<Conf(N_AFC, <<G_noname>>)>>)>> >>)
StandingsDocs == {EmptyDict, Doc_Children, Doc_Content, Doc_Teams, Doc_TeamId, Doc_NoRows}

(***************************************************************************)
(* State.                                                                  *)
(***************************************************************************)
VARIABLES
    pwl_pc,      \* _parse_wins_losses: "idle", "scan", "fallback", "done"
    pwl_stats,   \* its argument
    pwl_i,       \* the loop's position (1-based)
    pwl_acc,     \* its locals wins, losses and the exception raised
    bsd_pc,      \* build_standings_df: "idle", "start", "s1", "s2", "s3", "ret", "done"
    bsd_data,    \* its argument standings_data
    bsd_rows,    \* its local rows
    bsd_result,  \* "pending", "None", "table", or the exception raised
    ls_pc,       \* load_scores: "idle", "read", "replace", "rename", "dropna", "sort",
                 \* "emoji", "done", or "ValueError" when it raised
    ls_csv,      \* the table in scores.csv
    ls_df,       \* its local df
    main_pc,     \* main: "idle", "hero", "scoreboard", "games", "header", "primary",
                 \* "alt", "build", "building", "render", "done"
    selected,    \* the league picked in the sidebar
    page,        \* the elements rendered so far
    sb_data,     \* main's data: the result of get_scoreboard
    standings_data, \* get_standings' data, then main's standings_data
    season_i,    \* the position of get_standings' loop in Seasons
    requests,    \* the requests fetch_json has sent, in order
    responses,   \* the values fetch_json has returned, in order
    main_exc     \* the exception that ended main ("" if none)

pwl_vars == <<pwl_pc, pwl_stats, pwl_i, pwl_acc>>
bsd_vars == <<bsd_pc, bsd_data, bsd_rows, bsd_result>>
ls_vars == <<ls_pc, ls_csv, ls_df>>
main_vars == <<main_pc, selected, page, sb_data, standings_data, season_i, requests, responses,
               main_exc>>
vars == <<pwl_vars, bsd_vars, ls_vars, main_vars>>

PwlIdle == pwl_pc = "idle" /\ pwl_stats = <<>> /\ pwl_i = 0 /\ pwl_acc = PwlAcc(0, 0, "")
BsdIdle == bsd_pc = "idle" /\ bsd_data = JNone /\ bsd_rows = <<>> /\ bsd_result = "pending"
EmptyDf == Df(<<>>, <<>>, <<>>)
LsIdle == ls_pc = "idle" /\ ls_csv = EmptyDf /\ ls_df = EmptyDf
MainIdle ==
    /\ main_pc = "idle" /\ selected = LEAGUES[1] /\ page = <<>> /\ sb_data = JNone
    /\ standings_data = JNone /\ season_i = 0 /\ requests = <<>> /\ responses = <<>>
    /\ main_exc = ""

(***************************************************************************)
(* _parse_wins_losses, statement by statement.                             *)
(***************************************************************************)
PwlInit ==
    /\ BsdIdle /\ LsIdle /\ MainIdle
    /\ pwl_stats \in StatsLists
    /\ pwl_pc = "scan"
    /\ pwl_i = 1
    /\ pwl_acc = PwlAcc(0, 0, "")

\* lines 255-267: one iteration; an exception leaves the function
PwlScanEntry ==
    /\ pwl_pc = "scan"
    /\ pwl_i <= Len(pwl_stats)
    /\ pwl_acc' = ScanStep(pwl_acc, pwl_stats[pwl_i])
    /\ pwl_i' = pwl_i + 1
    /\ pwl_pc' = IF pwl_acc'.exc # "" THEN "done" ELSE "scan"
    /\ UNCHANGED <<pwl_stats, bsd_vars, ls_vars, main_vars>>

\* the loop is exhausted
PwlScanEnd ==
    /\ pwl_pc = "scan"
    /\ pwl_i > Len(pwl_stats)
    /\ pwl_pc' = "fallback"
    /\ UNCHANGED <<pwl_stats, pwl_i, pwl_acc, bsd_vars, ls_vars, main_vars>>

\* lines 268-274: the fallback and the return
PwlFallback ==
    /\ pwl_pc = "fallback"
    /\ pwl_acc' = Fallback(pwl_acc, pwl_stats)
    /\ pwl_pc' = "done"
    /\ UNCHANGED <<pwl_stats, pwl_i, bsd_vars, ls_vars, main_vars>>

PwlNext == PwlScanEntry \/ PwlScanEnd \/ PwlFallback

SpecPwl == PwlInit /\ [][PwlNext]_vars

(***************************************************************************)
(* build_standings_df, structure by structure.                             *)
(***************************************************************************)
BsdInit ==
    /\ PwlIdle /\ LsIdle /\ MainIdle
    /\ bsd_data \in Payloads
    /\ bsd_pc = "start"
    /\ bsd_rows = <<>>
    /\ bsd_result = "pending"

\* lines 278-280: an absent or empty payload is unavailable
BsdCheckPayload ==
    /\ bsd_pc = "start"
    /\ IF ~Truthy(bsd_data)
       THEN bsd_pc' = "done" /\ bsd_result' = "None"
       ELSE bsd_pc' = "s1" /\ bsd_result' = bsd_result
    /\ UNCHANGED <<bsd_data, bsd_rows, pwl_vars, ls_vars, main_vars>>

\* lines 283-299
BsdStructure1 ==
    /\ bsd_pc = "s1"
    /\ LET r == Structure1(bsd_data)
       IN  IF r.exc # ""
           THEN bsd_pc' = "done" /\ bsd_result' = r.exc /\ bsd_rows' = bsd_rows
           ELSE bsd_pc' = "s2" /\ bsd_result' = bsd_result /\ bsd_rows' = bsd_rows \o r.rows
    /\ UNCHANGED <<bsd_data, pwl_vars, ls_vars, main_vars>>

\* lines 302-324
BsdStructure2 ==
    /\ bsd_pc = "s2"
    /\ IF Structure2Guard(bsd_rows)
       THEN LET r == Structure2(bsd_data)
            IN  IF r.exc # ""
                THEN bsd_pc' = "done" /\ bsd_result' = r.exc /\ bsd_rows' = bsd_rows
                ELSE bsd_pc' = "s3" /\ bsd_result' = bsd_result
                     /\ bsd_rows' = bsd_rows \o r.rows
       ELSE bsd_pc' = "s3" /\ UNCHANGED <<bsd_result, bsd_rows>>
    /\ UNCHANGED <<bsd_data, pwl_vars, ls_vars, main_vars>>

\* lines 327-348
BsdStructure3 ==
    /\ bsd_pc = "s3"
    /\ IF Structure3Guard(bsd_rows, bsd_data)
       THEN LET r == Structure3(bsd_data)
            IN  IF r.exc # ""
                THEN bsd_pc' = "done" /\ bsd_result' = r.exc /\ bsd_rows' = bsd_rows
                ELSE bsd_pc' = "ret" /\ bsd_result' = bsd_result
                     /\ bsd_rows' = bsd_rows \o r.rows
       ELSE bsd_pc' = "ret" /\ UNCHANGED <<bsd_result, bsd_rows>>
    /\ UNCHANGED <<bsd_data, pwl_vars, ls_vars, main_vars>>

\* lines 350-352
BsdReturn ==
    /\ bsd_pc = "ret"
    /\ bsd_result' = IF bsd_rows = <<>> THEN "None" ELSE "table"
    /\ bsd_pc' = "done"
    /\ UNCHANGED <<bsd_data, bsd_rows, pwl_vars, ls_vars, main_vars>>

BsdNext == BsdCheckPayload \/ BsdStructure1 \/ BsdStructure2 \/ BsdStructure3 \/ BsdReturn

SpecBsd == BsdInit /\ [][BsdNext]_vars

(***************************************************************************)
(* load_scores, statement by statement.                                    *)
(***************************************************************************)
LsInit ==
    /\ PwlIdle /\ BsdIdle /\ MainIdle
    /\ ls_csv \in CsvTables
    /\ ls_pc = "read"
    /\ ls_df = EmptyDf

\* app.py:79: df = pd.read_csv("scores.csv")
LsReadCsv ==
    /\ ls_pc = "read"
    /\ ls_df' = ReadCsv(ls_csv)
    /\ ls_pc' = "replace"
    /\ UNCHANGED <<ls_csv, pwl_vars, bsd_vars, main_vars>>

\* app.py:80: df = df.replace("x", None)
LsReplace ==
    /\ ls_pc = "replace"
    /\ ls_df' = Replace(ls_df, Sentinel, JNone)
    /\ ls_pc' = "rename"
    /\ UNCHANGED <<ls_csv, pwl_vars, bsd_vars, main_vars>>

\* app.py:81-88: the unnamed aggregate column becomes "Total Total"
LsRename ==
    /\ ls_pc = "rename"
    /\ ls_df' = Rename(ls_df, Col_TotalRaw, Col_Total)
    /\ ls_pc' = "dropna"
    /\ UNCHANGED <<ls_csv, pwl_vars, bsd_vars, main_vars>>

\* app.py:89: .dropna(subset=["Team Member"])
LsDropna ==
    /\ ls_pc = "dropna"
    /\ ls_df' = Dropna(ls_df, Col_Name)
    /\ ls_pc' = "sort"
    /\ UNCHANGED <<ls_csv, pwl_vars, bsd_vars, main_vars>>

\* app.py:89-91: .sort_values(by="Total Total", ascending=False)
LsSort ==
    /\ ls_pc = "sort"
    /\ \E f \in SortOrders(ls_df, Col_Total) : ls_df' = TakeRows(ls_df, f)
    /\ ls_pc' = "emoji"
    /\ UNCHANGED <<ls_csv, pwl_vars, bsd_vars, main_vars>>

\* app.py:92-96: the Emoji column, and the return.  On a table without rows
\* df.apply returns a DataFrame, not a column: the assignment then raises
\* ValueError or goes through, depending on the pandas release.
LsEmoji ==
    /\ ls_pc = "emoji"
    /\ \/ ls_df' = WithEmoji(ls_df) /\ ls_pc' = "done"
       \/ NRows(ls_df) = 0 /\ ls_df' = ls_df /\ ls_pc' = "ValueError"
    /\ UNCHANGED <<ls_csv, pwl_vars, bsd_vars, main_vars>>

LsNext == LsReadCsv \/ LsReplace \/ LsRename \/ LsDropna \/ LsSort \/ LsEmoji

SpecLs == LsInit /\ [][LsNext]_vars

(***************************************************************************)
(* main, with get_scoreboard, get_standings and the call of                *)
(* build_standings_df.                                                     *)
(***************************************************************************)
MainInit ==
    /\ PwlIdle /\ BsdIdle /\ LsIdle
    /\ main_pc = "hero"
    /\ selected \in {LEAGUES[i] : i \in 1..Len(LEAGUES)}
    /\ page = <<>>
    /\ sb_data = JNone
    /\ standings_data = JNone
    /\ season_i = 0
    /\ requests = <<>>
    /\ responses = <<>>
    /\ main_exc = ""

\* main ends with the exception exc
MainRaise(exc) == main_pc' = "done" /\ main_exc' = exc

\* lines 356-370: the hero and the league radio
MainHero ==
    /\ main_pc = "hero"
    /\ page' = Append(page, "hero")
    /\ main_pc' = "scoreboard"
    /\ UNCHANGED <<selected, sb_data, standings_data, season_i, requests, responses, main_exc>>
    /\ UNCHANGED <<pwl_vars, bsd_vars, ls_vars>>

\* lines 373-376: get_scoreboard; no data is an error message and a return
MainScoreboard ==
    /\ main_pc = "scoreboard"
    /\ \E resp \in Responses(ScoreboardDocs) :
          LET r == FetchJson(resp)
          IN  /\ responses' = (IF r.exc # "" THEN responses ELSE Append(responses, r.value))
              /\ requests' = Append(requests,
                                    Request("scoreboard", selected.league, 0, DefaultTimeout))
              /\ IF r.exc # ""
                 THEN MainRaise(r.exc) /\ UNCHANGED <<sb_data, page>>
                 ELSE /\ sb_data' = r.value
                      /\ main_exc' = main_exc
                      /\ IF ~Truthy(r.value)
                         THEN page' = Append(page, "error:scoreboard") /\ main_pc' = "done"
                         ELSE page' = page /\ main_pc' = "games"
    /\ UNCHANGED <<selected, standings_data, season_i>>
    /\ UNCHANGED <<pwl_vars, bsd_vars, ls_vars>>

\* lines 378-414: the season subheader, then the game cards or "no games"
MainGames ==
    /\ main_pc = "games"
    /\ page' = page \o <<"subheader:season",
                         IF Truthy(GetD(sb_data, "events", EmptyList))
                         THEN "game-cards" ELSE "info:no-games">>
    /\ main_pc' = "header"
    /\ UNCHANGED <<selected, sb_data, standings_data, season_i, requests, responses, main_exc>>
    /\ UNCHANGED <<pwl_vars, bsd_vars, ls_vars>>

\* lines 417-418: the divider and the standings subheader
MainStandingsHeader ==
    /\ main_pc = "header"
    /\ page' = page \o <<"divider", "subheader:standings">>
    /\ main_pc' = "primary"
    /\ UNCHANGED <<selected, sb_data, standings_data, season_i, requests, responses, main_exc>>
    /\ UNCHANGED <<pwl_vars, bsd_vars, ls_vars>>

\* lines 178-181: get_standings requests the primary endpoint
GetStandingsPrimary ==
    /\ main_pc = "primary"
    /\ \E resp \in Responses(StandingsDocs) :
          LET r == FetchJson(resp)
              alt == NeedsAlt(r.value)
          IN  /\ responses' = (IF r.exc # "" THEN responses ELSE Append(responses, r.value))
              /\ requests' = Append(requests,
                                    Request("standings", selected.league, 0, StandingsTimeout))
              /\ IF r.exc # "" THEN MainRaise(r.exc) /\ UNCHANGED <<standings_data, season_i>>
                 ELSE IF ~IsNfl(selected)
                 THEN /\ standings_data' = r.value
                      /\ main_pc' = "build"
                      /\ UNCHANGED <<season_i, main_exc>>
                 ELSE IF alt.exc # ""
                 THEN MainRaise(alt.exc) /\ UNCHANGED <<standings_data, season_i>>
                 ELSE /\ standings_data' = r.value
                      /\ main_pc' = IF alt.yes THEN "alt" ELSE "build"
                      /\ season_i' = IF alt.yes THEN 1 ELSE season_i
                      /\ main_exc' = main_exc
    /\ UNCHANGED <<selected, page, sb_data>>
    /\ UNCHANGED <<pwl_vars, bsd_vars, ls_vars>>

\* lines 183-187: one iteration of the loop over the alternate endpoint
GetStandingsAlt ==
    /\ main_pc = "alt"
    /\ \E resp \in Responses(StandingsDocs) :
          LET r == FetchJson(resp)
              ok == AltUsable(r.value)
          IN  /\ responses' = (IF r.exc # "" THEN responses ELSE Append(responses, r.value))
              /\ requests' = Append(requests,
                                    Request("alt", selected.league, Seasons[season_i],
                                            StandingsTimeout))
              /\ IF r.exc # "" THEN MainRaise(r.exc) /\ UNCHANGED <<standings_data, season_i>>
                 ELSE IF ok.exc # ""
                 THEN MainRaise(ok.exc) /\ UNCHANGED <<standings_data, season_i>>
                 ELSE /\ standings_data' = r.value
                      /\ main_exc' = main_exc
                      /\ IF ok.yes \/ season_i = Len(Seasons)
                         THEN main_pc' = "build" /\ season_i' = season_i
                         ELSE main_pc' = "alt" /\ season_i' = season_i + 1
    /\ UNCHANGED <<selected, page, sb_data>>
    /\ UNCHANGED <<pwl_vars, bsd_vars, ls_vars>>

\* line 421: build_standings_df(standings_data, sport, league) if standings_data else None
MainBuildCall ==
    /\ main_pc = "build"
    /\ IF Truthy(standings_data)
       THEN /\ bsd_pc' = "start" /\ bsd_data' = standings_data
            /\ bsd_rows' = <<>> /\ bsd_result' = "pending"
            /\ main_pc' = "building"
       ELSE main_pc' = "render" /\ UNCHANGED bsd_vars
    /\ UNCHANGED <<selected, page, sb_data, standings_data, season_i, requests, responses,
                   main_exc>>
    /\ UNCHANGED <<pwl_vars, ls_vars>>

\* line 421: build_standings_df returns, or its exception ends main
MainBuildReturn ==
    /\ main_pc = "building"
    /\ bsd_pc = "done"
    /\ IF bsd_result \in {"None", "table"}
       THEN main_pc' = "render" /\ main_exc' = main_exc
       ELSE MainRaise(bsd_result)
    /\ UNCHANGED <<selected, page, sb_data, standings_data, season_i, requests, responses>>
    /\ UNCHANGED <<pwl_vars, bsd_vars, ls_vars>>

\* lines 423-495: the standings table and charts, or the "not available" message
MainRenderStandings ==
    /\ main_pc = "render"
    /\ page' = Append(page, IF bsd_result = "table" /\ bsd_rows # <<>>
                            THEN "standings:table-and-charts"
                            ELSE "info:standings-unavailable")
    /\ main_pc' = "done"
    /\ UNCHANGED <<selected, sb_data, standings_data, season_i, requests, responses, main_exc>>
    /\ UNCHANGED <<pwl_vars, bsd_vars, ls_vars>>

MainNext ==
    \/ MainHero \/ MainScoreboard \/ MainGames \/ MainStandingsHeader
    \/ GetStandingsPrimary \/ GetStandingsAlt
    \/ MainBuildCall \/ BsdNext \/ MainBuildReturn \/ MainRenderStandings

SpecMain == MainInit /\ [][MainNext]_vars

(***************************************************************************)
(* Claims about _parse_wins_losses, checked under SpecPwl.                 *)
(***************************************************************************)
PwlDone == pwl_pc = "done"
PwlReturned == PwlDone /\ pwl_acc.exc = ""
PwlPair == <<pwl_acc.wins, pwl_acc.losses>>

\* the value a dict entry carries under "value" parses as a number
ValueParses(s) == IsDict(s) /\ HasKey(s, "value") /\ PyIntFloat(Get(s, "value")).exc = ""

\* C2: _parse_wins_losses never fails: for every stats list it returns a pair
\* of integers, (0, 0) for the empty list and for a list in which no value
\* parses as a number.
C2_NeverFails ==
    PwlDone =>
        /\ pwl_acc.exc = ""
        /\ (pwl_stats = <<>> => PwlPair = <<0, 0>>)
        /\ ((\A i \in 1..Len(pwl_stats) : ~ValueParses(pwl_stats[i])) => PwlPair = <<0, 0>>)

\* stats holds a dict entry labeled `label` whose value is the string `value`
HasLabelled(stats, label, value) ==
    \E i \in 1..Len(stats) :
        /\ IsDict(stats[i])
        /\ StatLabel(stats[i]) = label
        /\ Get(stats[i], "value") = JStr(value)

Str_wins == <<"w","i","n","s">>
Str_losses == <<"l","o","s","s","e","s">>

\* C3 as stated: a list that contains an entry labeled "wins" with value "7"
\* and an entry labeled "losses" with value "3" gives (7, 3), whatever else it
\* holds (the exception outcomes, which are C2's, are left aside here).
C3_AnyOrderGives73 ==
    (PwlReturned /\ HasLabelled(pwl_stats, Str_wins, <<"7">>)
                 /\ HasLabelled(pwl_stats, Str_losses, <<"3">>))
        => PwlPair = <<7, 3>>

\* the last dict entry of stats whose label satisfies Is(_) is labeled `label`
\* with the string value `value`
LastLabelled(stats, IsKind(_), label, value) ==
    \E i \in 1..Len(stats) :
        /\ IsDict(stats[i])
        /\ StatLabel(stats[i]) = label
        /\ Get(stats[i], "value") = JStr(value)
        /\ \A j \in (i + 1)..Len(stats) : IsDict(stats[j]) => ~IsKind(StatLabel(stats[j]))

IsWinOnly(n) == IsWinLabel(n)
IsLossOnly(n) == ~IsWinLabel(n) /\ IsLossLabel(n)

C3_Pre ==
    /\ LastLabelled(pwl_stats, IsWinOnly, Str_wins, <<"7">>)
    /\ LastLabelled(pwl_stats, IsLossOnly, Str_losses, <<"3">>)

\* C3 (amended): when the last win-indicator entry of the list is labeled
\* "wins" with value "7" and the last loss-indicator entry is labeled "losses"
\* with value "3", _parse_wins_losses returns (7, 3); its only other outcome is
\* the OverflowError an infinite value of some entry raises.
C3_LastIndicatorsGive73 ==
    (PwlDone /\ C3_Pre) =>
        \/ (pwl_acc.exc = "" /\ PwlPair = <<7, 3>>)
        \/ pwl_acc.exc = "OverflowError"

\* C3 witness: (7, 3) is returned from a list in which an earlier
\* win-indicator entry with another value was overwritten.
C3_Witness ==
    /\ PwlReturned /\ C3_Pre /\ PwlPair = <<7, 3>>
    /\ \E i \in 1..Len(pwl_stats) :
          /\ IsDict(pwl_stats[i])
          /\ IsWinLabel(StatLabel(pwl_stats[i]))
          /\ Get(pwl_stats[i], "value") # JStr(<<"7">>)

\* the claim's coercion c: the truncated number, 0 for an unparseable value
CoerceOrZero(s) ==
    LET c == PyIntFloat(StatValue(s)) IN IF c.exc = "" THEN c.n ELSE 0

\* the label scan over the whole list left wins = 0 and losses = 0
ScanLeftZero ==
    LET acc == ScanPrefix(pwl_stats, Len(pwl_stats))
    IN  acc.exc = "" /\ acc.wins = 0 /\ acc.losses = 0

\* C4: whenever the label scan leaves wins = 0 and losses = 0 and the list has
\* at least two entries, the result is (c(entry 0), c(entry 1)), each entry
\* coerced independently (the exception outcomes, which are C2's, are left
\* aside here).
C4_PositionalFallback ==
    (PwlReturned /\ ScanLeftZero /\ Len(pwl_stats) >= 2
        /\ IsDict(pwl_stats[1]) /\ IsDict(pwl_stats[2]))
        => PwlPair = <<CoerceOrZero(pwl_stats[1]), CoerceOrZero(pwl_stats[2])>>

(***************************************************************************)
(* Claims about build_standings_df, checked under SpecBsd.                 *)
(***************************************************************************)
BsdDone == bsd_pc = "done"
BsdReturned == BsdDone /\ bsd_result \in {"None", "table"}

\* C1: build_standings_df is total: for every payload it returns a table or
\* None and never raises.
C1_NeverRaises == BsdDone => bsd_result \in {"None", "table"}

\* the rows a shape yields on its own from the payload (none if it raises)
RowsOf(r) == IF r.exc = "" THEN r.rows ELSE <<>>
Rows1 == RowsOf(Structure1(bsd_data))
Rows2 == RowsOf(Structure2(bsd_data))
Rows3 == IF IsDict(bsd_data) THEN RowsOf(Structure3(bsd_data)) ELSE <<>>
FirstYield == IF Rows1 # <<>> THEN Rows1 ELSE IF Rows2 # <<>> THEN Rows2 ELSE Rows3

\* C6: whenever build_standings_df returns, its result is exactly the rows of
\* the first of the shapes (grouped entries, content/groups, flat teams) that
\* yields a row; rows of two shapes are never mixed; the result is None, never
\* an empty table, when no shape yields a row or the payload is absent.
C6_FirstShapeOnly ==
    BsdReturned =>
        /\ bsd_rows = (IF Truthy(bsd_data) THEN FirstYield ELSE <<>>)
        /\ (bsd_result = "table") = (bsd_rows # <<>>)

\* C6 witness: a table made of the rows of the content/groups shape alone,
\* from a payload whose flat "teams" list would have yielded rows too.
C6_Witness ==
    /\ BsdDone /\ bsd_result = "table"
    /\ Rows1 = <<>> /\ Rows2 # <<>> /\ Rows3 # <<>>
    /\ bsd_rows = Rows2

\* the table was made by the flat-teams shape
FromFlatTeams == BsdDone /\ bsd_result = "table" /\ Rows1 = <<>> /\ Rows2 = <<>>

\* the entries of "teams" that have a team name, in order: one row each
NamedTeam(g) == Truthy(S3TeamName(GetD(g, "team", g)))
KeptTeams == SelectSeq(Items(Get(bsd_data, "teams")), NamedTeam)

\* s is "W-L" with both halves integers
IsWL(s) ==
    LET parts == StrSplit(s, "-")
    IN  Len(parts) = 2 /\ IntStr(parts[1]).exc = "" /\ IntStr(parts[2]).exc = ""
WLWins(s) == IntStr(StrSplit(s, "-")[1]).n
WLLosses(s) == IntStr(StrSplit(s, "-")[2]).n

\* C5 as stated: in the flat-teams shape a row whose entry has a string
\* record has wins = W and losses = L when the record is "W-L" with both
\* halves integers, and wins = 0 and losses = 0 for every other string
\* record, regardless of the entry's other fields.
C5_StringRecordOrZero ==
    FromFlatTeams =>
        \A i \in 1..Len(bsd_rows) :
            LET rec == Get(KeptTeams[i], "record")
            IN  IsStr(rec) =>
                    IF IsWL(rec.s)
                    THEN bsd_rows[i].Wins = WLWins(rec.s) /\ bsd_rows[i].Losses = WLLosses(rec.s)
                    ELSE bsd_rows[i].Wins = 0 /\ bsd_rows[i].Losses = 0

\* the first two "-"-separated parts of s both parse as integers
FirstTwoParse(s) ==
    LET parts == StrSplit(s, "-")
    IN  Len(parts) >= 2 /\ IntStr(parts[1]).exc = "" /\ IntStr(parts[2]).exc = ""

\* the entry's explicit field, 0 when absent or falsy
ExplicitField(g, key) == PyInt(PyOr(GetD(g, key, JInt(0)), JInt(0))).n

\* C5 (amended): in the flat-teams shape, for a row whose entry has a string
\* record (its "record", or its "summary" when "record" is absent or empty):
\* if the string contains "-", wins and losses are its first two
\* "-"-separated parts when both parse as integers ("12-4" gives 12 and 4) and
\* 0 and 0 otherwise; if it contains no "-" ("abc"), wins and losses are the
\* entry's explicit wins and losses fields, 0 when absent.
C5_StringRecordElseFields ==
    FromFlatTeams =>
        \A i \in 1..Len(bsd_rows) :
            LET g == KeptTeams[i]
                rec == S3Record(g)
                row == bsd_rows[i]
            IN  IsStr(rec) =>
                    IF StrContains(<<"-">>, rec.s)
                    THEN IF FirstTwoParse(rec.s)
                         THEN row.Wins = WLWins(rec.s) /\ row.Losses = WLLosses(rec.s)
                         ELSE row.Wins = 0 /\ row.Losses = 0
                    ELSE row.Wins = ExplicitField(g, "wins")
                         /\ row.Losses = ExplicitField(g, "losses")

\* C5 witness: a flat-teams table with a row for record "12-4" (12 and 4) and
\* a row for record "abc" beside wins = 5, losses = "2" (5 and 2).
C5_Witness ==
    /\ FromFlatTeams
    /\ \E i, j \in 1..Len(bsd_rows) :
          /\ KeptTeams[i] = F_124 /\ bsd_rows[i].Wins = 12 /\ bsd_rows[i].Losses = 4
          /\ KeptTeams[j] = F_abc5 /\ bsd_rows[j].Wins = 5 /\ bsd_rows[j].Losses = 2

(***************************************************************************)
(* Claims about load_scores, checked under SpecLs.                         *)
(***************************************************************************)
LsDone == ls_pc = "done"
Total(r) == Cell(ls_df, r, Col_Total)

\* C7: the leaderboard is ordered by grand total descending and the sort is
\* stable: two rows of equal grand total keep their relative order of the
\* input table.
C7_StableDescending ==
    LsDone =>
        \A i, j \in 1..NRows(ls_df) :
            (i < j /\ ~IsNA(Total(i)) /\ ~IsNA(Total(j))) =>
                /\ Total(i).n >= Total(j).n
                /\ (Total(i).n = Total(j).n => ls_df.index[i] < ls_df.index[j])

\* C8: a row carries the top indicator if and only if its grand total equals
\* the maximum grand total over the remaining rows; every other row,
\* including one whose grand total is missing, carries the default indicator.
C8_TopIffMax ==
    LsDone =>
        \A r \in 1..NRows(ls_df) :
            /\ Cell(ls_df, r, Col_Emoji) \in {Trophy, Cookie}
            /\ (Cell(ls_df, r, Col_Emoji) = Trophy) =
                  (/\ ~IsNA(Total(r))
                   /\ \A q \in 1..NRows(ls_df) : ~IsNA(Total(q)) => Total(q).n <= Total(r).n)

\* C8 witness: two rows tied at the maximum are both top, beside a row with a
\* missing grand total that is default.
C8_Witness ==
    /\ LsDone
    /\ \E a, b, c \in 1..NRows(ls_df) :
          /\ a # b
          /\ Cell(ls_df, a, Col_Emoji) = Trophy /\ Cell(ls_df, b, Col_Emoji) = Trophy
          /\ IsNA(Total(c)) /\ Cell(ls_df, c, Col_Emoji) = Cookie

\* the cells of input row r as read, once the sentinel has become a missing
\* value
Cleaned(r) ==
    [c \in 1..3 |->
        IF ls_csv.data[r][c] = <<"x">> THEN JNone
        ELSE ParseField(ColumnIsNumeric(ls_csv.data, c), ls_csv.data[r][c])]

\* C9: the output rows are exactly the input rows whose player name is
\* present once the sentinel "x" has become a missing value in all columns,
\* each once, whatever their score and total hold.
C9_DropsExactlyUnnamed ==
    LsDone =>
        /\ {ls_df.index[r] : r \in 1..NRows(ls_df)}
              = {ls_csv.index[r] : r \in {q \in 1..NRows(ls_csv) : ~IsNA(Cleaned(q)[1])}}
        /\ \A r, q \in 1..NRows(ls_df) : ls_df.index[r] = ls_df.index[q] => r = q
        /\ \A r \in 1..NRows(ls_df) :
              SubSeq(ls_df.data[r], 1, 3) = Cleaned(ls_df.index[r] + 1)

\* C9 witness: a row whose name is the sentinel was dropped though its score
\* and total are numbers, and a row with a sentinel score was kept.
C9_Witness ==
    /\ LsDone
    /\ \E q \in 1..NRows(ls_csv) :
          /\ ls_csv.data[q][1] = <<"x">>
          /\ AllDigits(ls_csv.data[q][2]) /\ AllDigits(ls_csv.data[q][3])
          /\ \A r \in 1..NRows(ls_df) : ls_df.index[r] # ls_csv.index[q]
    /\ \E r \in 1..NRows(ls_df) : IsNA(Cell(ls_df, r, Col_Score))

(***************************************************************************)
(* Claims about main, checked under SpecMain.                              *)
(***************************************************************************)
MainDone == main_pc = "done" /\ main_exc = ""
OnPage(e) == \E i \in 1..Len(page) : page[i] = e
Requested(endpoint) == \E i \in 1..Len(requests) : requests[i].endpoint = endpoint

\* C10: when a fetch returns no data the page shows a message in place of the
\* missing visualization and the rest of the page still renders: after a
\* failed scoreboard fetch the standings section is still fetched and
\* rendered, and after a failed standings fetch the scoreboard section is
\* still shown.
C10_RestStillRenders ==
    MainDone =>
        /\ (Requested("scoreboard") /\ ~Truthy(sb_data)) =>
              /\ OnPage("error:scoreboard")
              /\ Requested("standings")
              /\ (OnPage("standings:table-and-charts") \/ OnPage("info:standings-unavailable"))
        /\ (Requested("standings") /\ ~Truthy(standings_data)) =>
              /\ OnPage("info:standings-unavailable")
              /\ OnPage("subheader:season")

\* the requests get_standings has sent and the values they returned (the
\* scoreboard request and its value come first)
IsStandingsRequest(q) == q.endpoint # "scoreboard"
StReqs == SelectSeq(requests, IsStandingsRequest)
StResps == IF responses = <<>> THEN <<>> ELSE Tail(responses)

\* get_standings has returned to main
GsReturned == main_pc \in {"build", "building", "render", "done"} /\ StReqs # <<>> /\ main_exc = ""

\* a response without "children" groups, or absent
NoChildren(v) == ~Truthy(v) \/ ~Truthy(Get(v, "children"))
\* a response that holds any of children / content / teams
HasAny(v) ==
    Truthy(v) /\ (Truthy(Get(v, "children")) \/ Truthy(Get(v, "content")) \/ Truthy(Get(v, "teams")))

PrimaryRequest == Request("standings", selected.league, 0, StandingsTimeout)
AltRequest(season) == Request("alt", selected.league, season, StandingsTimeout)

\* C11: the primary standings endpoint is requested first; the secondary
\* endpoint is requested only for the NFL and only after a primary response
\* that is absent or has no "children", for the current season and then the
\* prior one; nothing is requested after the first secondary response that
\* holds any of children / content / teams; for every other league, or an
\* NFL primary response with children, exactly one request is made; the
\* value get_standings returns is the last response.
C11_RequestOrder ==
    /\ Len(StReqs) <= 3
    /\ Len(StReqs) >= 1 => StReqs[1] = PrimaryRequest
    /\ Len(StReqs) >= 2 =>
          /\ IsNfl(selected) /\ NoChildren(StResps[1])
          /\ StReqs[2] = AltRequest(0)
    /\ Len(StReqs) >= 3 =>
          /\ ~HasAny(StResps[2])
          /\ StReqs[3] = AltRequest(1)
    /\ GsReturned =>
          /\ Len(StResps) = Len(StReqs)
          /\ standings_data = StResps[Len(StResps)]
          /\ (~IsNfl(selected) \/ ~NoChildren(StResps[1])) => Len(StReqs) = 1
          /\ (IsNfl(selected) /\ NoChildren(StResps[1])) =>
                IF HasAny(StResps[2]) THEN Len(StReqs) = 2 ELSE Len(StReqs) = 3

\* C11 witness: for the NFL, a primary response without children and a first
\* secondary response without data were followed by the request for the prior
\* season, whose response get_standings returned.
C11_Witness ==
    /\ GsReturned /\ IsNfl(selected)
    /\ StReqs = <<PrimaryRequest, AltRequest(0), AltRequest(1)>>
    /\ ~Truthy(StResps[2]) /\ HasAny(StResps[3])
    /\ standings_data = StResps[3]

\* C12: fetch_json turns every remote failure (a network error, a non-2xx
\* status, a timeout, invalid JSON, undecodable bytes, a truncated response)
\* into None and lets no exception escape: main never ends with the
\* exception of a failed request.
C12_FetchNeverRaises == main_exc \notin FailureKinds

\* C13: every team record of a table returned by build_standings_df has
\* wins >= 0 and losses >= 0, whichever shape produced the row.  (Checked
\* under SpecBsd.)
C13_NonNegative ==
    (BsdDone /\ bsd_result = "table") =>
        \A i \in 1..Len(bsd_rows) : bsd_rows[i].Wins >= 0 /\ bsd_rows[i].Losses >= 0

\* build_standings_df makes at least one row of data (it neither raises nor
\* returns None), shape by shape in the order of the code
YieldsFrom3(data) == Structure3Guard(<<>>, data) /\ RowsOf(Structure3(data)) # <<>>
YieldsFrom2(data, r2) ==
    IF r2.exc # "" THEN FALSE ELSE IF r2.rows # <<>> THEN TRUE ELSE YieldsFrom3(data)
YieldsFrom1(data, r1) ==
    IF r1.exc # "" THEN FALSE
    ELSE IF r1.rows # <<>> THEN TRUE ELSE YieldsFrom2(data, Structure2(data))
YieldsRows(data) == Truthy(data) /\ IsDict(data) /\ YieldsFrom1(data, Structure1(data))

\* C14: the NFL fallback of get_standings never loses usable data: whenever
\* the primary response on its own is normalized by build_standings_df into
\* at least one row, so is the payload get_standings returns, whatever the
\* secondary responses are.
C14_FallbackKeepsUsableData ==
    (GsReturned /\ YieldsRows(StResps[1])) => YieldsRows(standings_data)

====
